---- MODULE Spec2Model ----
(***************************************************************************)
(* Model of the lead-registration API of src/index.js: the two validators  *)
(* (validarEtapa1, validarLead), the connection middleware and the four    *)
(* routes (POST /leads/validar-etapa1, POST /leads, GET /leads,            *)
(* DELETE /leads/:id) running against a MongoDB collection.                *)
(*                                                                         *)
(* JavaScript strings are sequences of one-character strings, so that      *)
(* trim(), toLowerCase(), replace(/\s/g,'') and the two regular            *)
(* expressions are computed, not assumed.  A JavaScript value is a record  *)
(* [t, s, n, b] whose tag t is its type.                                   *)
(*                                                                         *)
(* Node runs one handler at a time up to its next await, so an action is   *)
(* the code between two awaits; a store operation takes effect in the      *)
(* action that resumes the handler awaiting it.                            *)
(***************************************************************************)
EXTENDS Integers, Sequences, FiniteSets, TLC

\* ------------------------------------------------------------ bounds
\* The clients whose requests the server handles concurrently.
Clients == {"c1", "c2"}
\* Total number of requests the clients issue in one behaviour.
MaxReqs == 3

\* ------------------------------------------------- JavaScript values
JsUndef == [t |-> "undefined", s |-> <<>>, n |-> 0, b |-> FALSE]
JsNull == [t |-> "null", s |-> <<>>, n |-> 0, b |-> FALSE]
JsStr(str) == [t |-> "string", s |-> str, n |-> 0, b |-> FALSE]
JsNum(k) == [t |-> "number", s |-> <<>>, n |-> k, b |-> FALSE]
JsBool(x) == [t |-> "boolean", s |-> <<>>, n |-> 0, b |-> x]

\* typeof v === 'string'
IsString(v) == v.t = "string"

\* ToBoolean(v): undefined, null, "", 0 and false are falsy.
Truthy(v) ==
  CASE v.t = "undefined" -> FALSE
    [] v.t = "null" -> FALSE
    [] v.t = "string" -> v.s # <<>>
    [] v.t = "number" -> v.n # 0
    [] OTHER -> v.b

\* \s of a regular expression, and the characters trim() removes.
WhiteSpace == {" ", "\t"}
Digits == {"0", "1", "2", "3", "4", "5", "6", "7", "8", "9"}

\* String.prototype.trim
Trim(str) ==
  LET keep == {i \in 1..Len(str) : str[i] \notin WhiteSpace}
  IN IF keep = {} THEN <<>>
     ELSE LET lo == CHOOSE i \in keep : \A j \in keep : i <= j
              hi == CHOOSE i \in keep : \A j \in keep : j <= i
          IN SubSeq(str, lo, hi)

\* String.prototype.toLowerCase on the letters the model uses.
LowerChar(c) ==
  CASE c = "A" -> "a"
    [] c = "B" -> "b"
    [] c = "C" -> "c"
    [] c = "E" -> "e"
    [] c = "I" -> "i"
    [] OTHER -> c

ToLowerCase(str) == [i \in 1..Len(str) |-> LowerChar(str[i])]

\* str.replace(/\s/g, '')
NotWhiteSpace(c) == c \notin WhiteSpace

StripSpaces(str) == SelectSeq(str, NotWhiteSpace)

\* /^[^\s@]+@[^\s@]+\.[^\s@]{2,}$/.test(str)
emailRegex(str) ==
  \E i \in 1..Len(str), j \in 1..Len(str) :
    /\ str[i] = "@"
    /\ str[j] = "."
    /\ i >= 2
    /\ j >= i + 2
    /\ Len(str) - j >= 2
    /\ \A k \in 1..Len(str) : k # i => str[k] \notin (WhiteSpace \cup {"@"})

\* An optional element of a pattern: present (k = 1) or absent (k = 0).
Opt(k, cls) == IF k = 1 THEN <<cls>> ELSE <<>>

\* /^\(?([0-9]{2})\)?\s?9?([0-9]{4})-?([0-9]{4})$/.test(str)
telefoneRegex(str) ==
  \E a \in 0..1, b \in 0..1, c \in 0..1, d \in 0..1, e \in 0..1 :
    LET pat == Opt(a, {"("}) \o <<Digits, Digits>> \o Opt(b, {")"})
               \o Opt(c, WhiteSpace) \o Opt(d, {"9"})
               \o <<Digits, Digits, Digits, Digits>> \o Opt(e, {"-"})
               \o <<Digits, Digits, Digits, Digits>>
    IN /\ Len(pat) = Len(str)
       /\ \A k \in 1..Len(str) : str[k] \in pat[k]

\* ------------------------------------------------------ validators
ErrPerfil == "Perfil inválido ou não informado."
ErrEmpresaObrigatoria == "Empresa é obrigatória para o perfil selecionado."
ErrEmpresaCurta == "Empresa deve ter pelo menos 3 caracteres."
ErrCargoObrigatorio == "Cargo é obrigatório para o perfil selecionado."
ErrCargoCurto == "Cargo deve ter pelo menos 3 caracteres."
ErrEmail == "Email é obrigatório e deve ser válido."
ErrTelefone == "Telefone é obrigatório e deve ser válido (formato brasileiro)."
ErrNome == "Nome é obrigatório e deve ter pelo menos 3 caracteres."
ErrChecagem == "Responda a pergunta de checagem corretamente."
ErrAdesao == "É necessário concordar com o Termo de Adesão."
ErrLGPD == "É necessário autorizar o uso dos dados (LGPD)."
ErrEmailDuplicado == "Este e-mail já está participando da promoção."
ErrTelefoneDuplicado == "Este telefone já está cadastrado."

Estudante == <<"E", "s", "t", "u", "d", "a", "n", "t", "e">>
Executivo == <<"E", "x", "e", "c", "u", "t", "i", "v", "o">>
Empresario == <<"E", "m", "p", "r", "e", "s", "á", "r", "i", "o">>
Investidor == <<"I", "n", "v", "e", "s", "t", "i", "d", "o", "r">>

perfisValidos == {Estudante, Executivo, Empresario, Investidor}
perfisComEmpresa == {Executivo, Empresario, Investidor}

\* Array.prototype.includes(v) on an array of strings: strict equality.
Includes(arr, v) == IsString(v) /\ v.s \in arr

\* if (!lead.perfil || typeof ... || trim() === '' || !includes) push
ErrosPerfil(lead) ==
  IF \/ ~Truthy(lead.perfil)
     \/ ~IsString(lead.perfil)
     \/ Trim(lead.perfil.s) = <<>>
     \/ ~Includes(perfisValidos, lead.perfil)
  THEN <<ErrPerfil>> ELSE <<>>

\* The empresa branch inside if (perfisComEmpresa.includes(lead.perfil)).
ErrosEmpresa(lead) ==
  IF ~Includes(perfisComEmpresa, lead.perfil) THEN <<>>
  ELSE IF \/ ~Truthy(lead.empresa)
          \/ ~IsString(lead.empresa)
          \/ Trim(lead.empresa.s) = <<>>
       THEN <<ErrEmpresaObrigatoria>>
       ELSE IF Len(Trim(lead.empresa.s)) < 3 THEN <<ErrEmpresaCurta>>
            ELSE <<>>

\* The cargo branch inside the same if.
ErrosCargo(lead) ==
  IF ~Includes(perfisComEmpresa, lead.perfil) THEN <<>>
  ELSE IF \/ ~Truthy(lead.cargo)
          \/ ~IsString(lead.cargo)
          \/ Trim(lead.cargo.s) = <<>>
       THEN <<ErrCargoObrigatorio>>
       ELSE IF Len(Trim(lead.cargo.s)) < 3 THEN <<ErrCargoCurto>>
            ELSE <<>>

\* v ? v.trim()... : '' calls trim on every truthy v; a truthy value that
\* is not a string has no trim method and the call throws a TypeError.
TrimThrows(v) == Truthy(v) /\ ~IsString(v)

\* const emailTest = lead.email ? lead.email.trim().toLowerCase() : ''
emailTest(lead) ==
  IF Truthy(lead.email) THEN ToLowerCase(Trim(lead.email.s)) ELSE <<>>

ErrosEmail(lead) ==
  IF \/ ~Truthy(lead.email)
     \/ ~IsString(lead.email)
     \/ Trim(lead.email.s) = <<>>
     \/ ~emailRegex(emailTest(lead))
  THEN <<ErrEmail>> ELSE <<>>

\* const telefoneTest = lead.telefone ? trim().replace(/\s/g, '') : ''
telefoneTest(lead) ==
  IF Truthy(lead.telefone) THEN StripSpaces(Trim(lead.telefone.s)) ELSE <<>>

ErrosTelefone(lead) ==
  IF \/ ~Truthy(lead.telefone)
     \/ ~IsString(lead.telefone)
     \/ Trim(lead.telefone.s) = <<>>
     \/ ~telefoneRegex(telefoneTest(lead))
  THEN <<ErrTelefone>> ELSE <<>>

ErrosNome(lead) ==
  IF \/ ~Truthy(lead.nome)
     \/ ~IsString(lead.nome)
     \/ Trim(lead.nome.s) = <<>>
     \/ Len(Trim(lead.nome.s)) < 3
  THEN <<ErrNome>> ELSE <<>>

\* The outcome of a validator: the list it returns, or the TypeError it
\* throws (the errors pushed before the throw are lost with the frame).
Returned(erros) == [threw |-> FALSE, erros |-> erros]
Thrown == [threw |-> TRUE, erros |-> <<>>]

\* function validarEtapa1(lead)
validarEtapa1(lead) ==
  IF TrimThrows(lead.email) \/ TrimThrows(lead.telefone) THEN Thrown
  ELSE Returned(ErrosPerfil(lead) \o ErrosEmpresa(lead) \o ErrosCargo(lead)
                \o ErrosEmail(lead) \o ErrosTelefone(lead) \o ErrosNome(lead))

\* if (!lead.perguntaChecagem || lead.perguntaChecagem.trim().length < 3)
ErrosChecagem(lead) ==
  IF \/ ~Truthy(lead.perguntaChecagem)
     \/ Len(Trim(lead.perguntaChecagem.s)) < 3
  THEN <<ErrChecagem>> ELSE <<>>

\* lead.adesao !== true
ErrosAdesao(lead) ==
  IF lead.adesao # JsBool(TRUE) THEN <<ErrAdesao>> ELSE <<>>

\* lead.LGPD !== true
ErrosLGPD(lead) ==
  IF lead.LGPD # JsBool(TRUE) THEN <<ErrLGPD>> ELSE <<>>

\* function validarLead(lead)
validarLead(lead) ==
  LET etapa1 == validarEtapa1(lead)
  IN IF etapa1.threw \/ TrimThrows(lead.perguntaChecagem) THEN Thrown
     ELSE Returned(etapa1.erros \o ErrosChecagem(lead) \o ErrosAdesao(lead)
                   \o ErrosLGPD(lead))

\* ---------------------------------------------------- request data
\* A request body as express.json() leaves it: a field the JSON omits
\* reads as undefined.
EmptyBody ==
  [nome |-> JsUndef, perfil |-> JsUndef, empresa |-> JsUndef,
   cargo |-> JsUndef, email |-> JsUndef, telefone |-> JsUndef,
   perguntaChecagem |-> JsUndef, perguntaGeral |-> JsUndef,
   adesao |-> JsUndef, LGPD |-> JsUndef]

EmailAna == <<"a", "@", "b", ".", "c", "o">>
EmailCaio == <<"A", "@", "b", ".", "c", "o">>
FoneAna == <<"1", "1", "9", "9", "9", "9", "9", "8", "8", "8", "8">>
FoneBia == <<"(", "1", "1", ")", " ", "9", "8", "8", "8", "8", "-",
             "7", "7", "7", "7">>

\* The bodies the clients send.  ana and bia are complete and share an
\* e-mail but not a phone; caio has ana's phone, her e-mail in another
\* case, and neither the check answer nor the consents; dan's phone is
\* malformed; eva's e-mail is a number.
Bodies ==
  [ana |-> [EmptyBody EXCEPT
              !.nome = JsStr(<<"A", "n", "a">>),
              !.perfil = JsStr(Estudante),
              !.email = JsStr(EmailAna),
              !.telefone = JsStr(FoneAna),
              !.perguntaChecagem = JsStr(<<"a", "z", "u", "l">>),
              !.adesao = JsBool(TRUE),
              !.LGPD = JsBool(TRUE)],
   bia |-> [EmptyBody EXCEPT
              !.nome = JsStr(<<"B", "i", "a">>),
              !.perfil = JsStr(Executivo),
              !.empresa = JsStr(<<"A", "c", "m", "e">>),
              !.cargo = JsStr(<<"C", "E", "O">>),
              !.email = JsStr(EmailAna),
              !.telefone = JsStr(FoneBia),
              !.perguntaChecagem = JsStr(<<"a", "z", "u", "l">>),
              !.perguntaGeral = JsStr(<<"o", "i">>),
              !.adesao = JsBool(TRUE),
              !.LGPD = JsBool(TRUE)],
   caio |-> [EmptyBody EXCEPT
              !.nome = JsStr(<<"C", "a", "i", "o">>),
              !.perfil = JsStr(Estudante),
              !.email = JsStr(EmailCaio),
              !.telefone = JsStr(FoneAna)],
   dan |-> [EmptyBody EXCEPT
              !.nome = JsStr(<<"D", "a", "n">>),
              !.perfil = JsStr(Estudante),
              !.email = JsStr(<<"d", "@", "b", ".", "c", "o">>),
              !.telefone = JsStr(<<"1", "2", "3">>),
              !.perguntaChecagem = JsStr(<<"a", "z", "u", "l">>),
              !.adesao = JsBool(TRUE),
              !.LGPD = JsBool(TRUE)],
   eva |-> [EmptyBody EXCEPT
              !.nome = JsStr(<<"E", "v", "a">>),
              !.perfil = JsStr(Estudante),
              !.email = JsNum(123),
              !.telefone = JsStr(FoneAna)]]

\* The bodies sent in arbitrary requests, and those the two-step form
\* submits.
BodyNames == {"ana", "bia", "caio", "dan", "eva"}
FormBodies == {"ana", "bia"}

\* ObjectId strings: 24 hexadecimal characters.
HexChars == <<"0", "1", "2", "3", "4", "5", "6", "7", "8", "9",
              "a", "b", "c", "d", "e", "f">>

Zeros23 == [i \in 1..23 |-> "0"]

\* The ObjectId generated for the document built by the k-th request.
IdOf(k) == Zeros23 \o <<HexChars[k + 1]>>

\* Identifiers that are not ObjectIds: too short, or not hexadecimal.
MalformedIds == {<<"a", "b", "c">>, Zeros23 \o <<"g">>}

\* The :id parameters the clients send: the identifier of a stored
\* document, a well-formed identifier of no document, a malformed one.
IdParams(coll) == {d._id : d \in coll} \cup {IdOf(0)} \cup MalformedIds

\* mongoose.Types.ObjectId.isValid on a string: 24 hexadecimal characters.
\* (Some versions of the library also accept any string of 12 characters;
\* the clients send none.)
ObjectIdIsValid(id) ==
  /\ Len(id) = 24
  /\ \A i \in 1..Len(id) : \E h \in 1..Len(HexChars) : id[i] = HexChars[h]

\* ------------------------------------------------------------ state
VARIABLES
  isConnected,  \* let isConnected: false, then connections[0].readyState
  dbString,     \* whether process.env.DB_CONNECTION_STRING is set
  leads,        \* the documents of the Lead collection
  nreq,         \* requests received so far: the clock and the id source
  req,          \* per client, the request the server is handling for it
  form,         \* per client, the step its two-step form is at
  hist,         \* the outcomes connectToDatabase has had so far
  cand,         \* validator check: the candidate
  vres,         \* validator check: what the validator produced
  vpc           \* validator check: which validator ran

vars ==
  <<isConnected, dbString, leads, nreq, req, form, hist, cand, vres, vpc>>

NoDoc == [_id |-> <<>>]

\* A request and the handler's progress on it.  seq is its rank among
\* the requests received; attempts counts the times connectToDatabase
\* went past its cache check for it, ops the store operations issued for
\* it, connect the outcome of that attempt; emailStored (telefoneStored) records whether, when its e-mail
\* (phone) lookup ran, the collection held a document with exactly that
\* e-mail (phone); lookupFailed whether a lookup rejected.
Idle ==
  [kind |-> "none", seq |-> 0, body |-> "ana", id |-> <<>>, pc |-> "idle",
   status |-> 0, erros |-> <<>>, doc |-> NoDoc, lista |-> <<>>,
   attempts |-> 0, connect |-> "none", ops |-> 0, emailStored |-> FALSE,
   telefoneStored |-> FALSE, lookupFailed |-> FALSE]

Kinds == {"root", "validar", "criar", "listar", "remover"}

\* res.status(code) with a body and the end of the handler.
Respond(r, code) == [r EXCEPT !.pc = "done", !.status = code]

\* A store operation is issued and the handler awaits it at label.
Await(r, label) == [r EXCEPT !.pc = label, !.ops = r.ops + 1]

\* const { nome, email, telefone, perfil, empresa, cargo } = req.body
leadEtapa1(body) ==
  [EmptyBody EXCEPT !.nome = body.nome, !.email = body.email,
                    !.telefone = body.telefone, !.perfil = body.perfil,
                    !.empresa = body.empresa, !.cargo = body.cargo]

\* Mutant: the early return is taken only for two errors or more.
ValidarRejectsMany(erros) == Len(erros) > 1

\* if (erros.length > 0) in handleValidarEtapa1, before the lookups
ValidarRejects(erros) == Len(erros) > 0

\* Mutant: the early return is taken only for two errors or more.
CriarRejectsMany(erros) == Len(erros) > 1

\* if (erros.length > 0) in POST /leads
CriarRejects(erros) == Len(erros) > 0

\* A String path of the schema on the values the routes store: a string
\* is kept and an absent field stays absent.
CastString(v) == IF IsString(v) THEN v ELSE JsUndef

\* new Lead({...}) for the request of rank seq: the document, with its
\* generated _id and the dataCadastro default (Date.now) at the time of
\* construction.
NewLead(body, seq, now) ==
  [_id |-> IdOf(seq),
   nome |-> CastString(body.nome),
   perfil |-> CastString(body.perfil),
   empresa |-> CastString(body.empresa),
   cargo |-> CastString(body.cargo),
   email |-> CastString(body.email),
   telefone |-> CastString(body.telefone),
   perguntaChecagem |-> CastString(body.perguntaChecagem),
   perguntaGeral |-> CastString(body.perguntaGeral),
   adesao |-> JsBool(Truthy(body.adesao)),
   LGPD |-> JsBool(Truthy(body.LGPD)),
   dataCadastro |-> now]

\* Mutant: the identifier is not checked before the query.
RemoverRejectsNothing(id) == FALSE

\* !mongoose.Types.ObjectId.isValid(id)
RemoverRejects(id) == ~ObjectIdIsValid(id)

\* const erros = validarEtapa1(leadEtapa1), for each body sent.
Etapa1Of == [b \in DOMAIN Bodies |-> validarEtapa1(leadEtapa1(Bodies[b]))]

\* const erros = validarLead(req.body), for each body sent.
LeadOf == [b \in DOMAIN Bodies |-> validarLead(Bodies[b])]

\* The route handler from its start to its first await (or its response).
\* The routes name a second middleware, ensureDbConnected, that index.js
\* never defines; the connection middleware has already run, and the
\* request goes straight to the handler.
Route(r, now) ==
  CASE r.kind = "validar" ->
         LET out == Etapa1Of[r.body]
         IN IF out.threw THEN [r EXCEPT !.pc = "thrown"]
            ELSE IF ValidarRejects(out.erros)
                 THEN Respond([r EXCEPT !.erros = out.erros], 400)
                 ELSE IF Truthy(Bodies[r.body].email)
                      THEN Await(r, "findEmail")
                      ELSE IF Truthy(Bodies[r.body].telefone)
                           THEN Await(r, "findTelefone")
                           ELSE Respond(r, 200)
    [] r.kind = "criar" ->
         LET out == LeadOf[r.body]
         IN IF out.threw THEN [r EXCEPT !.pc = "thrown"]
            ELSE IF CriarRejects(out.erros)
                 THEN Respond([r EXCEPT !.erros = out.erros], 400)
                 ELSE Await([r EXCEPT !.doc =
                                         NewLead(Bodies[r.body], r.seq, now)],
                            "save")
    [] r.kind = "listar" -> Await(r, "find")
    [] r.kind = "remover" ->
         IF RemoverRejects(r.id) THEN Respond(r, 400)
         ELSE Await(r, "findByIdAndDelete")
    [] OTHER -> Respond(r, 404)

\* The connection middleware up to its first await: the path / skips the
\* connection; a cached connection is reused; past the cache check a
\* missing connection string throws at once and is answered 503;
\* otherwise mongoose.connect is called and awaited.
Middleware(r, now) ==
  IF r.kind = "root" THEN Respond(r, 404)
  ELSE IF Truthy(isConnected) THEN Route(r, now)
       ELSE IF ~dbString
            THEN Respond([r EXCEPT !.attempts = r.attempts + 1,
                                   !.connect = "failed"], 503)
            ELSE [r EXCEPT !.pc = "connecting", !.attempts = r.attempts + 1]

\* The server handles one request of a client at a time.
Free(c) == req[c].pc \in {"idle", "done", "thrown"}

\* The server receives a request of client c.
Receive(c, kind, body, id) ==
  /\ Free(c)
  /\ nreq' = nreq + 1
  /\ req' = [req EXCEPT ![c] =
               Middleware([Idle EXCEPT !.kind = kind, !.seq = nreq + 1,
                                       !.body = body, !.id = id],
                          nreq + 1)]
  /\ hist' = IF req'[c].status = 503 THEN hist \cup {"failed"} ELSE hist
  /\ UNCHANGED <<isConnected, dbString, leads, cand, vres, vpc>>

\* A request of any kind arrives from client c.
Arrive(c, kind, body, id) ==
  /\ nreq < MaxReqs
  /\ Receive(c, kind, body, id)
  /\ UNCHANGED form

ArriveRoot(c) == Arrive(c, "root", "ana", <<>>)

ArriveValidar(c) == \E b \in BodyNames : Arrive(c, "validar", b, <<>>)

ArriveCriar(c) == \E b \in BodyNames : Arrive(c, "criar", b, <<>>)

ArriveListar(c) == Arrive(c, "listar", "ana", <<>>)

ArriveRemover(c) == \E id \in IdParams(leads) : Arrive(c, "remover", "ana", id)

\* db.connections[0].readyState once mongoose.connect has resolved.
readyState == JsNum(1)

\* Mutant: the flag is set whatever the attempt's outcome.
FlagAfterConnectAlways(flag, ok) == readyState

\* isConnected after connectToDatabase's attempt: set from readyState when
\* mongoose.connect resolved, untouched when it rejected.
FlagAfterConnect(flag, ok) == IF ok THEN readyState ELSE flag

\* mongoose.connect resolves: the flag is set and next() runs the route.
ConnectOk(c) ==
  /\ req[c].pc = "connecting"
  /\ isConnected' = FlagAfterConnect(isConnected, TRUE)
  /\ req' = [req EXCEPT ![c] = Route([req[c] EXCEPT !.connect = "ok"], nreq)]
  /\ hist' = hist \cup {"ok"}
  /\ UNCHANGED <<dbString, leads, nreq, form, cand, vres, vpc>>

\* mongoose.connect rejects: connectToDatabase rethrows, 503.
ConnectFail(c) ==
  /\ req[c].pc = "connecting"
  /\ isConnected' = FlagAfterConnect(isConnected, FALSE)
  /\ req' = [req EXCEPT ![c] =
               Respond([req[c] EXCEPT !.connect = "failed"], 503)]
  /\ hist' = hist \cup {"failed"}
  /\ UNCHANGED <<dbString, leads, nreq, form, cand, vres, vpc>>

\* ------------------------------------------------ store operations
\* Mutant: the e-mail lookup filters on the telefone path.
MatchEmailOnTelefone(coll, email) == {d \in coll : d.telefone = email}

\* Lead.findOne({ email: email }): the documents the filter matches.
MatchEmail(coll, email) == {d \in coll : d.email = email}

\* Lead.findOne({ telefone: telefone })
MatchTelefone(coll, telefone) == {d \in coll : d.telefone = telefone}

\* The end of handleValidarEtapa1 once both lookups returned.
ValidarFinish(r) ==
  IF Len(r.erros) > 0 THEN Respond(r, 400) ELSE Respond(r, 200)

\* Mutant: a rejected lookup keeps the duplicate already found and is
\* answered like a duplicate.
ValidarCatchKeepsErros(r) ==
  IF Len(r.erros) > 0 THEN Respond(r, 400)
  ELSE Respond([r EXCEPT !.erros = <<>>], 500)

\* catch (err) around both lookups: 500 with a message and no error list.
ValidarCatch(r) == Respond([r EXCEPT !.erros = <<>>], 500)

\* The form advances to its second step when its pre-check is answered 200.
Remember(c, r) ==
  IF form[c] = "etapa1" /\ r.pc = "done" /\ r.status = 200
  THEN [form EXCEPT ![c] = "etapa2"]
  ELSE form

\* await Lead.findOne({ email }) returns; then if (telefone) ...
FindEmailOk(c) ==
  /\ req[c].pc = "findEmail"
  /\ LET r == req[c]
         email == Bodies[r.body].email
         hit == MatchEmail(leads, email) # {}
         r1 == [r EXCEPT
                  !.erros = IF hit THEN Append(@, ErrEmailDuplicado) ELSE @,
                  !.emailStored = \E d \in leads : d.email = email]
         r2 == IF Truthy(Bodies[r.body].telefone)
               THEN Await(r1, "findTelefone")
               ELSE ValidarFinish(r1)
     IN /\ req' = [req EXCEPT ![c] = r2]
        /\ form' = Remember(c, r2)
  /\ UNCHANGED <<isConnected, dbString, leads, nreq, hist, cand, vres, vpc>>

\* await Lead.findOne({ email }) rejects.
FindEmailFail(c) ==
  /\ req[c].pc = "findEmail"
  /\ req' = [req EXCEPT ![c] =
               ValidarCatch([req[c] EXCEPT !.lookupFailed = TRUE])]
  /\ UNCHANGED <<isConnected, dbString, leads, nreq, form, hist, cand, vres, vpc>>

\* await Lead.findOne({ telefone }) returns.
FindTelefoneOk(c) ==
  /\ req[c].pc = "findTelefone"
  /\ LET r == req[c]
         hit == MatchTelefone(leads, Bodies[r.body].telefone) # {}
         r1 == [r EXCEPT
                  !.erros = IF hit THEN Append(@, ErrTelefoneDuplicado) ELSE @,
                  !.telefoneStored =
                     \E d \in leads : d.telefone = Bodies[r.body].telefone]
         r2 == ValidarFinish(r1)
     IN /\ req' = [req EXCEPT ![c] = r2]
        /\ form' = Remember(c, r2)
  /\ UNCHANGED <<isConnected, dbString, leads, nreq, hist, cand, vres, vpc>>

\* await Lead.findOne({ telefone }) rejects.
FindTelefoneFail(c) ==
  /\ req[c].pc = "findTelefone"
  /\ req' = [req EXCEPT ![c] =
               ValidarCatch([req[c] EXCEPT !.lookupFailed = TRUE])]
  /\ UNCHANGED <<isConnected, dbString, leads, nreq, form, hist, cand, vres, vpc>>

\* A required String path rejects undefined, null and ''.
RequiredString(v) == IsString(v) /\ v.s # <<>>

\* A required Boolean path rejects undefined and null.
RequiredBoolean(v) == v.t = "boolean"

\* Mutant: the schema declares email unique and the insert is refused
\* when the collection holds the e-mail.
SaveAcceptsUnique(coll, doc) ==
  /\ RequiredString(doc.nome)
  /\ RequiredString(doc.perfil)
  /\ RequiredString(doc.email)
  /\ RequiredString(doc.telefone)
  /\ RequiredString(doc.perguntaChecagem)
  /\ RequiredBoolean(doc.adesao)
  /\ RequiredBoolean(doc.LGPD)
  /\ \A d \in coll : d.email # doc.email

\* LeadSchema: what save() validates before the insert.  The schema
\* declares required paths and no unique index, so the collection's
\* content plays no part.
SaveAccepts(coll, doc) ==
  /\ RequiredString(doc.nome)
  /\ RequiredString(doc.perfil)
  /\ RequiredString(doc.email)
  /\ RequiredString(doc.telefone)
  /\ RequiredString(doc.perguntaChecagem)
  /\ RequiredBoolean(doc.adesao)
  /\ RequiredBoolean(doc.LGPD)

\* Mutant: save() replaces the documents that hold the same e-mail.
StoreAfterSaveUpsert(coll, doc) ==
  {d \in coll : d.email # doc.email} \cup {doc}

\* The collection after lead.save() inserted doc.
StoreAfterSave(coll, doc) == coll \cup {doc}

\* await lead.save() resolves: 201 with the stored document.
SaveOk(c) ==
  /\ req[c].pc = "save"
  /\ SaveAccepts(leads, req[c].doc)
  /\ leads' = StoreAfterSave(leads, req[c].doc)
  /\ req' = [req EXCEPT ![c] = Respond(req[c], 201)]
  /\ UNCHANGED <<isConnected, dbString, nreq, form, hist, cand, vres, vpc>>

\* await lead.save() rejects: 500 with error.message.
SaveFail(c) ==
  /\ req[c].pc = "save"
  /\ req' = [req EXCEPT ![c] = Respond([req[c] EXCEPT !.doc = NoDoc], 500)]
  /\ UNCHANGED <<isConnected, dbString, leads, nreq, form, hist, cand, vres, vpc>>

\* Lead.find().sort({ dataCadastro: -1 }): every order of the collection
\* with dataCadastro non-increasing (the store orders ties as it likes).
SortedDesc(coll) ==
  {l \in [1..Cardinality(coll) -> coll] :
     /\ \A i, j \in DOMAIN l : i # j => l[i] # l[j]
     /\ \A i, j \in DOMAIN l : i < j => l[i].dataCadastro >= l[j].dataCadastro}

\* await Lead.find().sort(...) resolves: 200 with the list.
FindOk(c) ==
  /\ req[c].pc = "find"
  /\ \E l \in SortedDesc(leads) :
       req' = [req EXCEPT ![c] = Respond([req[c] EXCEPT !.lista = l], 200)]
  /\ UNCHANGED <<isConnected, dbString, leads, nreq, form, hist, cand, vres, vpc>>

\* await Lead.find().sort(...) rejects: 500.
FindFail(c) ==
  /\ req[c].pc = "find"
  /\ req' = [req EXCEPT ![c] = Respond(req[c], 500)]
  /\ UNCHANGED <<isConnected, dbString, leads, nreq, form, hist, cand, vres, vpc>>

\* The collection after findByIdAndDelete removed doc.
StoreAfterDelete(coll, doc) == coll \ {doc}

\* await Lead.findByIdAndDelete(id) resolves (the id casts to an
\* ObjectId): 404 when nothing matched, else 200 with the removed document.
DeleteOk(c) ==
  /\ req[c].pc = "findByIdAndDelete"
  /\ ObjectIdIsValid(req[c].id)
  /\ LET hits == {d \in leads : d._id = req[c].id}
     IN IF hits = {}
        THEN /\ req' = [req EXCEPT ![c] = Respond(req[c], 404)]
             /\ UNCHANGED leads
        ELSE \E d \in hits :
               /\ leads' = StoreAfterDelete(leads, d)
               /\ req' = [req EXCEPT ![c] =
                            Respond([req[c] EXCEPT !.doc = d], 200)]
  /\ UNCHANGED <<isConnected, dbString, nreq, form, hist, cand, vres, vpc>>

\* await Lead.findByIdAndDelete(id) rejects (the store failed, or the id
\* does not cast): 500.
DeleteFail(c) ==
  /\ req[c].pc = "findByIdAndDelete"
  /\ req' = [req EXCEPT ![c] = Respond(req[c], 500)]
  /\ UNCHANGED <<isConnected, dbString, leads, nreq, form, hist, cand, vres, vpc>>

\* ---------------------------------------------------- specification
Init ==
  /\ isConnected = JsBool(FALSE)
  /\ dbString \in BOOLEAN
  /\ leads = {}
  /\ nreq = 0
  /\ req = [c \in Clients |-> Idle]
  /\ form = [c \in Clients |-> "free"]
  /\ hist = {}
  /\ cand = EmptyBody
  /\ vres = Returned(<<>>)
  /\ vpc = "off"

Next ==
  \E c \in Clients :
    \/ ArriveRoot(c)
    \/ ArriveValidar(c)
    \/ ArriveCriar(c)
    \/ ArriveListar(c)
    \/ ArriveRemover(c)
    \/ ConnectOk(c)
    \/ ConnectFail(c)
    \/ FindEmailOk(c)
    \/ FindEmailFail(c)
    \/ FindTelefoneOk(c)
    \/ FindTelefoneFail(c)
    \/ SaveOk(c)
    \/ SaveFail(c)
    \/ FindOk(c)
    \/ FindFail(c)
    \/ DeleteOk(c)
    \/ DeleteFail(c)

Spec == Init /\ [][Next]_vars

\* -------------------------------------------- the validators alone
\* The values each field of a candidate ranges over: missing, not a
\* string, blank, malformed, valid.
PerfilValues ==
  {JsUndef, JsNum(7), JsStr(<<" ">>), JsStr(<<"X">>), JsStr(Estudante),
   JsStr(Executivo)}

EmpresaValues ==
  {JsUndef, JsNum(7), JsStr(<<" ">>), JsStr(<<" ", "a", "b", " ">>),
   JsStr(<<"A", "c", "m", "e">>)}

EmailValues ==
  {JsUndef, JsNum(123), JsStr(<<>>), JsStr(<<" ">>), JsStr(<<"a", "@", "b">>),
   JsStr(<<" ", "A", "@", "b", ".", "c", "o", " ">>)}

TelefoneValues ==
  {JsUndef, JsNum(123), JsStr(<<"1", "2", "3">>), JsStr(FoneAna),
   JsStr(FoneBia)}

NomeValues ==
  {JsUndef, JsNum(7), JsStr(<<"a", "b">>), JsStr(<<"A", "n", "a">>)}

ChecagemValues == {JsUndef, JsNum(5), JsStr(<<"a", "z", "u", "l">>)}

ConsentValues == {JsUndef, JsNum(1), JsBool(TRUE)}

Candidates ==
  {[EmptyBody EXCEPT !.perfil = p, !.empresa = e, !.cargo = g,
                     !.email = m, !.telefone = t, !.nome = n] :
     p \in PerfilValues, e \in EmpresaValues, g \in EmpresaValues,
     m \in EmailValues, t \in TelefoneValues, n \in NomeValues}

InitV ==
  /\ isConnected = JsBool(FALSE)
  /\ dbString = FALSE
  /\ leads = {}
  /\ nreq = 0
  /\ req = [c \in Clients |-> Idle]
  /\ form = [c \in Clients |-> "free"]
  /\ hist = {}
  /\ cand \in Candidates
  /\ vres = Returned(<<>>)
  /\ vpc = "ready"

\* validarEtapa1 is applied to the candidate.
RunEtapa1 ==
  /\ vpc = "ready"
  /\ vres' = validarEtapa1(cand)
  /\ vpc' = "etapa1"
  /\ UNCHANGED <<isConnected, dbString, leads, nreq, req, form, hist, cand>>

\* validarLead is applied to the candidate completed with the fields of
\* the second step.
RunLead ==
  /\ vpc = "ready"
  /\ \E q \in ChecagemValues, a \in ConsentValues, l \in ConsentValues :
       /\ cand' = [cand EXCEPT !.perguntaChecagem = q, !.adesao = a,
                               !.LGPD = l]
       /\ vres' = validarLead(cand')
  /\ vpc' = "lead"
  /\ UNCHANGED <<isConnected, dbString, leads, nreq, req, form, hist>>

NextV == RunEtapa1 \/ RunLead

SpecV == InitV /\ [][NextV]_vars

\* ------------------------------------------------ the two-step form
\* The landing page's form: each client sends the pre-check once and,
\* when it is answered 200, the full submission of the same body.
InitForm ==
  /\ isConnected = JsBool(FALSE)
  /\ dbString = TRUE
  /\ leads = {}
  /\ nreq = 0
  /\ req = [c \in Clients |-> Idle]
  /\ form = [c \in Clients |-> "etapa1"]
  /\ hist = {}
  /\ cand = EmptyBody
  /\ vres = Returned(<<>>)
  /\ vpc = "off"

FormValidar(c) ==
  /\ form[c] = "etapa1"
  /\ req[c].pc = "idle"
  /\ \E b \in FormBodies : Receive(c, "validar", b, <<>>)
  /\ UNCHANGED form

FormCriar(c) ==
  /\ form[c] = "etapa2"
  /\ Receive(c, "criar", req[c].body, <<>>)
  /\ form' = [form EXCEPT ![c] = "enviado"]

NextForm ==
  \E c \in Clients :
    \/ FormValidar(c)
    \/ FormCriar(c)
    \/ ConnectOk(c)
    \/ ConnectFail(c)
    \/ FindEmailOk(c)
    \/ FindEmailFail(c)
    \/ FindTelefoneOk(c)
    \/ FindTelefoneFail(c)
    \/ SaveOk(c)
    \/ SaveFail(c)

SpecForm == InitForm /\ [][NextForm]_vars

\* ------------------------------------------------------- the claims
Range(seq) == {seq[i] : i \in DOMAIN seq}

Count(seq, x) == Cardinality({i \in DOMAIN seq : seq[i] = x})

\* The rules of the field validator, field by field, as the design
\* states them.
IsBusiness(c) == IsString(c.perfil) /\ c.perfil.s \in perfisComEmpresa

LongEnough(v) == IsString(v) /\ Len(Trim(v.s)) >= 3

FieldFails(c, f) ==
  CASE f = "perfil" -> ~(IsString(c.perfil) /\ c.perfil.s \in perfisValidos)
    [] f = "empresa" -> IsBusiness(c) /\ ~LongEnough(c.empresa)
    [] f = "cargo" -> IsBusiness(c) /\ ~LongEnough(c.cargo)
    [] f = "email" ->
         ~(IsString(c.email) /\ emailRegex(ToLowerCase(Trim(c.email.s))))
    [] f = "telefone" ->
         ~(IsString(c.telefone)
           /\ telefoneRegex(StripSpaces(Trim(c.telefone.s))))
    [] OTHER -> ~LongEnough(c.nome)

FieldOrder == <<"perfil", "empresa", "cargo", "email", "telefone", "nome">>

FailingFields(c) ==
  LET Bad(f) == FieldFails(c, f) IN SelectSeq(FieldOrder, Bad)

\* The field an error message is about.
FieldOf(msg) ==
  CASE msg = ErrPerfil -> "perfil"
    [] msg \in {ErrEmpresaObrigatoria, ErrEmpresaCurta} -> "empresa"
    [] msg \in {ErrCargoObrigatorio, ErrCargoCurto} -> "cargo"
    [] msg = ErrEmail -> "email"
    [] msg = ErrTelefone -> "telefone"
    [] msg = ErrNome -> "nome"
    [] OTHER -> "etapa2"

FieldsOf(erros) == [i \in DOMAIN erros |-> FieldOf(erros[i])]

\* C7: validarEtapa1 never fails fast.  For every candidate, whatever
\* each field is (missing, not a string, blank, malformed, valid), it
\* returns a list and does not throw, and the list holds exactly one
\* error for each field whose check fails, in the order perfil, empresa,
\* cargo, email, telefone, nome.
C7_NeverFailsFast ==
  vpc = "etapa1" =>
    /\ ~vres.threw
    /\ FieldsOf(vres.erros) = FailingFields(cand)

\* A string of fewer than 3 characters once trimmed.
ShortString(v) == IsString(v) /\ Len(Trim(v.s)) < 3

\* C8: empresa and cargo errors depend on the profile.  A candidate
\* whose profile is not Executivo, Empresario or Investidor gets no
\* empresa error and no cargo error; a candidate whose profile is one of
\* the three and whose empresa and cargo are each shorter than 3 trimmed
\* characters gets exactly one length error for empresa, exactly one for
\* cargo, and no presence error for either.
C8_EmpresaCargoByProfile ==
  vpc = "etapa1" =>
    /\ ~IsBusiness(cand) =>
         Range(vres.erros) \cap {ErrEmpresaObrigatoria, ErrEmpresaCurta,
                                 ErrCargoObrigatorio, ErrCargoCurto} = {}
    /\ (IsBusiness(cand) /\ ShortString(cand.empresa)
        /\ ShortString(cand.cargo)) =>
         /\ Count(vres.erros, ErrEmpresaCurta) = 1
         /\ Count(vres.erros, ErrCargoCurto) = 1
         /\ ErrEmpresaObrigatoria \notin Range(vres.erros)
         /\ ErrCargoObrigatorio \notin Range(vres.erros)

\* The request went through the connection middleware to its handler,
\* which answered.  The claims about pre-check, submission and delete are
\* claims about these handlers: a request that the middleware answers 503
\* never reaches them.
Answered(r) == r.pc = "done" /\ r.status # 503

\* C1: a pre-check whose candidate passes validarEtapa1, whose lookups
\* succeed and whose e-mail is, exactly, the e-mail of a stored lead is
\* answered 400 with the e-mail-duplicate message in its error list; it
\* is answered neither 200 nor 500.
C1_DuplicateEmailRejected ==
  \A c \in Clients :
    LET r == req[c]
    IN (/\ r.kind = "validar"
        /\ Answered(r)
        /\ Etapa1Of[r.body] = Returned(<<>>)
        /\ r.emailStored
        /\ ~r.lookupFailed)
       => /\ r.status = 400
          /\ ErrEmailDuplicado \in Range(r.erros)

C1_Witness ==
  \E c \in Clients :
    /\ req[c].kind = "validar"
    /\ Answered(req[c])
    /\ req[c].emailStored
    /\ ~req[c].lookupFailed
    /\ req[c].status = 400
    /\ \E d \in leads : d.email = Bodies[req[c].body].email

\* C2: a pre-check whose candidate, restricted to the six fields of the
\* first step, yields a non-empty validarEtapa1 error list is answered
\* (by its handler) 400 with exactly those errors, and issues no lookup
\* to the store.
C2_InvalidSkipsLookups ==
  \A c \in Clients :
    LET r == req[c]
        out == Etapa1Of[r.body]
    IN (r.kind = "validar" /\ ~out.threw /\ out.erros # <<>>)
       => /\ r.ops = 0
          /\ Answered(r) => (r.status = 400 /\ r.erros = out.erros)

C2_Witness ==
  \E c \in Clients :
    /\ req[c].kind = "validar"
    /\ Answered(req[c])
    /\ req[c].status = 400
    /\ req[c].erros = <<ErrTelefone>>
    /\ req[c].ops = 0
    /\ leads # {}

\* C3: a pre-check one of whose lookups fails at the store is answered
\* 500, never 400 or 200, also when the e-mail lookup had found a
\* duplicate before the phone lookup failed; and a duplicate message is
\* returned only for a lookup that found a stored lead.
C3_StoreFailureIsNotDuplicate ==
  \A c \in Clients :
    LET r == req[c]
    IN (r.kind = "validar" /\ r.pc = "done")
       => /\ r.lookupFailed => (r.status = 500 /\ r.erros = <<>>)
          /\ ErrEmailDuplicado \in Range(r.erros) => r.emailStored
          /\ ErrTelefoneDuplicado \in Range(r.erros) => r.telefoneStored

C3_Witness ==
  \E c \in Clients :
    /\ req[c].kind = "validar"
    /\ req[c].pc = "done"
    /\ req[c].emailStored
    /\ req[c].lookupFailed
    /\ req[c].status = 500

\* C4: uniqueness is only advisory.  Nothing the collection holds keeps
\* a validated full submission from being stored: whenever a submission
\* awaits save(), the insert can succeed.  So two clients whose
\* pre-checks of the same e-mail and phone were both answered 200 both
\* get 201, and the collection holds two leads with the same e-mail
\* (the witness).
C4_UniquenessOnlyAdvisory ==
  \A c \in Clients : req[c].pc = "save" => ENABLED SaveOk(c)

C4_Witness ==
  /\ \A c \in Clients :
       /\ form[c] = "enviado"
       /\ req[c].kind = "criar"
       /\ req[c].pc = "done"
       /\ req[c].status = 201
  /\ \E d \in leads, e \in leads :
       d # e /\ d.email = e.email /\ d.telefone = e.telefone

\* The full submission of r yields a non-empty validarLead error list.
InvalidCreate(r) ==
  r.kind = "criar" /\ ~LeadOf[r.body].threw /\ LeadOf[r.body].erros # <<>>

C5_State ==
  \A c \in Clients :
    LET r == req[c]
    IN InvalidCreate(r)
       => /\ r.ops = 0
          /\ r.doc = NoDoc
          /\ Answered(r) => (r.status = 400 /\ r.erros = LeadOf[r.body].erros)

C5_Step ==
  \A c \in Clients :
    (req'[c] # req[c] /\ InvalidCreate(req'[c])) => leads' = leads

\* C5: a full submission whose candidate yields a non-empty validarLead
\* error list is answered (by its handler) 400 with that list, builds no
\* document, issues no read or write to the store, and leaves the
\* collection as it was.
C5_InvalidCreateTouchesNothing == [](C5_State) /\ [][C5_Step]_vars

C5_Witness ==
  \E c \in Clients :
    /\ req[c].kind = "criar"
    /\ Answered(req[c])
    /\ req[c].status = 400
    /\ Len(req[c].erros) = 3
    /\ leads # {}

\* A request arrives from client c in this step.
Arrives(c) == req'[c].seq # req[c].seq

C6_State ==
  /\ Truthy(isConnected) => "ok" \in hist
  /\ \A c \in Clients :
       req[c].connect = "failed"
       => /\ req[c].pc = "done"
          /\ req[c].status = 503
          /\ req[c].ops = 0
          /\ req[c].doc = NoDoc
          /\ req[c].erros = <<>>

C6_Step ==
  \A c \in Clients :
    (Arrives(c) /\ req'[c].kind # "root")
    => IF "ok" \in hist
       THEN req'[c].attempts = 0 /\ req'[c].connect = "none"
       ELSE req'[c].attempts = 1

\* C6: a failed connection attempt is never cached as success.  The flag
\* is set only once an attempt has succeeded; a request whose attempt
\* fails (the store is unreachable or the connection string is missing)
\* is answered 503 and runs no handler and no store operation; a request
\* arriving while no attempt has succeeded (in particular after a
\* failure) attempts the connection, and a request arriving after a
\* success reuses it without an attempt.
C6_FailureNeverCached == [](C6_State) /\ [][C6_Step]_vars

C6_Witness ==
  /\ hist = {"ok", "failed"}
  /\ Truthy(isConnected)
  /\ \E c \in Clients :
       /\ req[c].kind \notin {"none", "root"}
       /\ req[c].attempts = 0
       /\ Answered(req[c])

C9_State ==
  \A c \in Clients :
    LET r == req[c]
    IN (r.kind = "remover" /\ r.id \in MalformedIds)
       => /\ r.ops = 0
          /\ Answered(r) => r.status = 400

C9_Step ==
  \A c \in Clients :
    (/\ req'[c] # req[c]
     /\ req'[c].kind = "remover"
     /\ req'[c].id \in MalformedIds) => leads' = leads

\* C9: a delete whose identifier is malformed is answered (by its
\* handler) 400 without any query to the store and without a change of
\* the collection, whatever the collection holds.
C9_MalformedIdRejected == [](C9_State) /\ [][C9_Step]_vars

C9_Witness ==
  \E c \in Clients :
    /\ req[c].kind = "remover"
    /\ req[c].id \in MalformedIds
    /\ Answered(req[c])
    /\ req[c].status = 400
    /\ leads # {}

\* The step stores the document of c's validated full submission.
Created(c) ==
  /\ req[c].kind = "criar"
  /\ req[c].pc = "save"
  /\ req'[c].status = 201
  /\ LeadOf[req[c].body] = Returned(<<>>)
  /\ \A d \in leads : d._id # req'[c].doc._id
  /\ leads' = leads \cup {req'[c].doc}

\* The step removes the document whose identifier c's delete names.
Deleted(c) ==
  /\ req[c].kind = "remover"
  /\ req[c].pc = "findByIdAndDelete"
  /\ req'[c].status = 200
  /\ \E d \in leads :
       /\ d._id = req[c].id
       /\ req'[c].doc = d
       /\ leads' = leads \ {d}

C10_Step ==
  /\ \A d \in leads, e \in leads' : d._id = e._id => d = e
  /\ leads' # leads => \E c \in Clients : Created(c) \/ Deleted(c)
  /\ \A c \in Clients :
       (/\ req'[c] # req[c]
        /\ \/ req'[c].kind \in {"validar", "listar"}
           \/ req'[c].kind = "remover" /\ req'[c].status \in {400, 404})
       => leads' = leads

\* C10: the lifecycle of a lead.  The fields of a stored lead never
\* change; a lead enters the collection only through a full submission
\* whose candidate passed validarLead, which adds exactly that one
\* document, and leaves it only through a delete given its identifier,
\* which removes exactly that document; a pre-check, a listing and a
\* delete answered 400 or 404 leave the collection as it is.
C10_LeadLifecycle == [][C10_Step]_vars

C10_Witness ==
  /\ leads # {}
  /\ \E c \in Clients :
       /\ req[c].kind = "remover"
       /\ req[c].status = 200
       /\ req[c].doc \notin leads

====
